---- MODULE Spec2Model ----
(***************************************************************************)
(* The quiz session of sqbot: the GameState class (src/src/bot/GameState.ts)*)
(* and the Discord event handlers that drive it (src/unnamed/part_005).    *)
(*                                                                         *)
(* JavaScript runs every handler to its next `await` without interruption. *)
(* An `await` on network or disk I/O (textChannel.send, the datastore)     *)
(* suspends the handler: the continuation is kept in `tasks` and resumed   *)
(* by a later step, so that other events interleave.  An `await` on a      *)
(* promise that is already settled (an async method without I/O) resumes   *)
(* in the same macrotask and is part of the same step.                     *)
(***************************************************************************)
EXTENDS Integers, FiniteSets, Sequences, Bags, TLC

\* ---------------------------------------------------------------- bounds
MaxGames   == 2      \* GameState objects in use at once (SpecRace)
MaxTimers  == 3      \* setTimeout callbacks pending at once
MaxTasks   == 2      \* handlers suspended on I/O at once
MaxScore   == 1      \* cap of one participant's score

\* ---------------------------------------------------------------- inputs
Users       == {"u1", "u2"}
Guilds      == {"g1"}
PackLengths == {1, 2}          \* pack.entries.length of the packs in the store
Contents    == {"match", "skip", "other"}
GameIds     == 1..MaxGames

VARIABLES
  activeGames,   \* part_005:30   guildId -> GameState (0: no entry)
  games,         \* the GameState objects, by identity
  timers,        \* pending setTimeout callbacks
  tasks,         \* bag of handlers suspended on I/O
  hist,          \* what was announced so far (observation only)
  probe          \* one object followed on its own (a GameState with its
                 \* entries, the stream bridge, ...), by specification

vars == <<activeGames, games, timers, tasks, hist, probe>>

\* ------------------------------------------------------------ GameState
\* A GameState object that `new GameState(...)` has not constructed yet.
NoGame ==
  [ created |-> FALSE, guildId |-> "g1", hostId |-> "u1", entries |-> 0,
    isActive |-> FALSE, currentRound |-> 0,
    scores |-> [u \in Users |-> 0], players |-> {}, skipVoters |-> {},
    connection |-> FALSE, player |-> "undefined",
    answerDisplayed |-> FALSE ]

\* constructor(guildId, hostId, pack, textChannel, ytDlp); len is
\* pack.entries.length (the shuffle keeps it)
NewGameState(gid, host, len) ==
  [ NoGame EXCEPT !.created = TRUE, !.guildId = gid, !.hostId = host,
                  !.entries = len, !.players = {host} ]

\* What was observed of a game.  res is about round res.rnd, the latest round
\* whose playback was started or to which a resolution was applied: playback
\* started (p) and the resolutions announced for it (n, counted to 2).  lb:
\* final leaderboards sent (counted to 2); stopped: a moderator stop was
\* processed.
NoRes(r) == [rnd |-> r, p |-> FALSE, n |-> 0]

NoHist == [ res |-> NoRes(0), lb |-> 0, stopped |-> FALSE ]

\* The sessions above keep of a pack only its length.  Where the entries
\* themselves matter (their order, their playDuration, their video) one
\* GameState is followed on its own in `probe`, from the pack handed to the
\* constructor through playCurrentEntry for each of its entries:
\*   source   pack.entries of the caller's pack (entry ids)
\*   entries  this.pack.entries, round  this.currentRound
\*   playDuration, media   of the entry last handed to playCurrentEntry
\*   rejected createAudioStream threw, stream  what the bridge carries,
\*   player   state of the AudioPlayer, timeout  ms of roundTimeout (0: none)
NoProbe ==
  [ stage |-> "none", source |-> <<>>, entries |-> <<>>, round |-> 0,
    playDuration |-> 0, media |-> "ok", rejected |-> FALSE,
    stream |-> "none", player |-> "idle", timeout |-> 0 ]

\* The program state as one value, so that a method is an operator from the
\* state before the call to the state after it.  ok = FALSE marks a run that
\* left the bounds of the model; no step leads to such a state.
Cur ==
  [ activeGames |-> activeGames, games |-> games, timers |-> timers,
    tasks |-> tasks, hist |-> hist, ok |-> TRUE ]

\* A GameState that neither the registry nor a pending timer nor a suspended
\* handler refers to can never be used again: it is garbage.
Registered(s, g) == \E gid \in DOMAIN s.activeGames : s.activeGames[gid] = g

Referenced(s, g) ==
  \/ Registered(s, g)
  \/ \E t \in s.timers : t.g = g
  \/ \E t \in DOMAIN s.tasks : t.g = g

\* checkAnswer and voteSkip are called on the registered game only and read
\* the players, the votes and answerDisplayed behind a test of isActive, which
\* start() sets once: in a game that has ended or has left the registry these
\* fields are dead, and they are dropped with the garbage.  Once a game has
\* ended nothing changes its scores, and they are read only for the text of
\* a score message; the rounds of an ended game are no longer observed.
Collect(s) ==
  [s EXCEPT
     !.games = [g \in GameIds |->
                  IF ~Referenced(s, g) THEN NoGame
                  ELSE IF ~@[g].isActive
                       THEN [@[g] EXCEPT !.players = {}, !.skipVoters = {},
                                         !.answerDisplayed = FALSE,
                                         !.scores = NoGame.scores]
                  ELSE IF ~Registered(s, g)
                       THEN [@[g] EXCEPT !.players = {}, !.skipVoters = {},
                                         !.answerDisplayed = FALSE]
                       ELSE @[g]],
     !.hist  = [g \in GameIds |->
                  IF ~Referenced(s, g) THEN NoHist
                  ELSE IF ~s.games[g].isActive
                       THEN [@[g] EXCEPT !.res = NoRes(0)]
                       ELSE @[g]]]

Apply(s) ==
  /\ s.ok
  /\ LET c == Collect(s) IN
       /\ activeGames' = c.activeGames
       /\ games' = c.games
       /\ timers' = c.timers
       /\ tasks' = c.tasks
       /\ hist' = c.hist
       /\ probe' = probe

\* one of the outcomes of a call that can go more than one way
ApplyAny(S) == \E s \in S : Apply(s)

Cap2(n) == IF n >= 2 THEN 2 ELSE n + 1

\* get currentEntry(): undefined once currentRound >= pack.entries.length
HasCurrentEntry(gm) == gm.currentRound < gm.entries

\* ------------------------------------------------------- tasks and timers
Task(kind, g, u, x) == [kind |-> kind, g |-> g, u |-> u, x |-> x]

\* `await <I/O>`: the rest of the handler is suspended
Suspend(s, t) ==
  IF BagCardinality(s.tasks) >= MaxTasks
  THEN [s EXCEPT !.ok = FALSE]
  ELSE [s EXCEPT !.tasks = @ (+) SetToBag({t})]

\* A pending timer is [g, kind, rnd, held]: the callback this.<kind>() of game
\* g, armed when the round index was rnd.  held: this.roundTimeout of g is
\* the handle of this timer.  A handle whose timer has fired or was cleared
\* cancels nothing, so the field roundTimeout is this flag and no more.
\* if (this.roundTimeout) clearTimeout(this.roundTimeout)
ClearTimeout(s, g) ==
  [s EXCEPT !.timers = {t \in @ : ~(t.g = g /\ t.held)}]

\* this.roundTimeout = setTimeout(() => this.<kind>(), ...): the timer of
\* the overwritten handle stays pending and can no longer be cancelled.
SetRoundTimeout(s, g, kind) ==
  LET old == {IF t.g = g THEN [t EXCEPT !.held = FALSE] ELSE t : t \in s.timers}
      new == [g |-> g, kind |-> kind, rnd |-> s.games[g].currentRound,
              held |-> TRUE]
  IN IF Cardinality(old) # Cardinality(s.timers)
        \/ Cardinality(old) >= MaxTimers
     THEN [s EXCEPT !.ok = FALSE]
     ELSE [s EXCEPT !.timers = old \cup {new}]

\* ------------------------------------------------------ GameState methods
Focus(s, g, r) ==
  IF s.hist[g].res.rnd = r THEN s ELSE [s EXCEPT !.hist[g].res = NoRes(r)]

Note(s, g, r) == [Focus(s, g, r) EXCEPT !.hist[g].res.n = Cap2(@)]

\* addPlayer(playerId)
AddPlayer(s, g, u) == [s EXCEPT !.games[g].players = @ \cup {u}]

\* a removal that also forgets the score of the player
RemovePlayerForgetting(s, g, u) ==
  [s EXCEPT !.games[g].players = @ \ {u}, !.games[g].scores[u] = 0]

\* removePlayer(playerId)
RemovePlayer(s, g, u) == [s EXCEPT !.games[g].players = @ \ {u}]

\* end(), up to `await this.textChannel.send(scoreMessage)`.  The score
\* message is built from this.scores before the send.
End(s, g, caller) ==
  LET s1 == [s EXCEPT !.games[g].isActive = FALSE]
      s2 == ClearTimeout(s1, g)
      s3 == [s2 EXCEPT !.hist[g].lb = Cap2(@)]
  IN Suspend(s3, Task("endSend", g, "u1", caller))

\* end(), after the send: this.connection?.destroy(); connection and
\* player become undefined
EndRelease(s, g) ==
  [s EXCEPT !.games[g].connection = FALSE,
            !.games[g].player = "undefined"]

\* playCurrentEntry().  createAudioStream / createAudioResource either
\* return or throw: both outcomes.
PlayCurrentEntry(s, g) ==
  LET gm == s.games[g] IN
  IF ~HasCurrentEntry(gm) \/ gm.player = "undefined" THEN {s}
  ELSE { \* catch: await this.textChannel.send("... skipping ...")
         Suspend(s, Task("mediaFail", g, "u1", gm.currentRound)),
         \* this.player.play(resource); this.roundTimeout = setTimeout(...)
         SetRoundTimeout([Focus(s, g, gm.currentRound) EXCEPT
                            !.games[g].player = "playing",
                            !.hist[g].res.p = TRUE],
                         g, "timeoutCurrentRound") }

\* a round that begins with the votes of the round before
PlayNextRoundKeepingVotes(s, g) ==
  IF ~HasCurrentEntry(s.games[g]) THEN {End(s, g, "natural")}
  ELSE PlayCurrentEntry([ClearTimeout(s, g) EXCEPT
                           !.games[g].answerDisplayed = FALSE], g)

\* playNextRound().  The round announcement sent at the end has no
\* continuation that touches the state.
PlayNextRound(s, g) ==
  IF ~HasCurrentEntry(s.games[g]) THEN {End(s, g, "natural")}
  ELSE PlayCurrentEntry([ClearTimeout(s, g) EXCEPT
                           !.games[g].skipVoters = {},
                           !.games[g].answerDisplayed = FALSE], g)

\* playCurrentEntry(), the catch block after its send: this.player.stop()
\* throws a TypeError when end() has released the player meanwhile.
MediaFailResume(s, g) ==
  IF s.games[g].player = "undefined" THEN {s}
  ELSE PlayNextRound([s EXCEPT !.games[g].player = "idle",
                               !.games[g].currentRound = @ + 1], g)

\* a threshold that half of the players reach
SkipConsensusAtHalf(gm) ==
  2 * Cardinality(gm.skipVoters) >= Cardinality(gm.players)

\* voteSkip(memberId): strictly more than half of the players
SkipConsensus(gm) == 2 * Cardinality(gm.skipVoters) > Cardinality(gm.players)

VoteSkipGuard(gm, u) == gm.isActive /\ HasCurrentEntry(gm) /\ u \in gm.players

VoteSkip(s, g, u) ==
  LET gm == s.games[g] IN
  IF ~VoteSkipGuard(gm, u) THEN {s}
  ELSE IF u \in gm.skipVoters THEN {s}
  ELSE LET s1 == [s EXCEPT !.games[g].skipVoters = @ \cup {u}]
       IN IF SkipConsensus(s1.games[g])
          THEN PlayNextRound([Note(s1, g, gm.currentRound) EXCEPT
                                !.games[g].currentRound = @ + 1], g)
          ELSE {s1}

\* checkAnswer without the test of this.players
CheckAnswerGuardAnySender(gm, u, sameChannel) ==
  gm.isActive /\ HasCurrentEntry(gm) /\ sameChannel

\* checkAnswer(message), the guard of lines 184-190
CheckAnswerGuard(gm, u, sameChannel) ==
  gm.isActive /\ HasCurrentEntry(gm) /\ sameChannel /\ u \in gm.players

\* a credit that cancels the round timer before anything else
CheckAnswerCorrectCancelling(s, g, u) ==
  IF s.games[g].scores[u] >= MaxScore THEN [s EXCEPT !.ok = FALSE]
  ELSE LET s0 == ClearTimeout(s, g)
           s1 == [s0 EXCEPT !.games[g].scores[u] = @ + 1]
           s2 == Note(s1, g, s.games[g].currentRound)
       IN Suspend(s2, Task("answerSend", g, "u1", "none"))

\* checkAnswer, lines 198-204: the credit and the announcement, up to the
\* `await this.textChannel.send(...)`
CheckAnswerCorrect(s, g, u) ==
  IF s.games[g].scores[u] >= MaxScore THEN [s EXCEPT !.ok = FALSE]
  ELSE LET s1 == [s EXCEPT !.games[g].scores[u] = @ + 1]
           s2 == Note(s1, g, s.games[g].currentRound)
       IN Suspend(s2, Task("answerSend", g, "u1", "none"))

\* content: "skip" (one of SKIP_SHORTCUT), "match" (isCorrectAnswer for the
\* current entry) or "other"
CheckAnswer(s, g, u, content, sameChannel) ==
  IF ~CheckAnswerGuard(s.games[g], u, sameChannel) THEN {s}
  ELSE IF content = "skip" THEN VoteSkip(s, g, u)
  ELSE IF content = "match" THEN {CheckAnswerCorrect(s, g, u)}
  ELSE {s}

\* timeoutCurrentRound(), up to `await this.textChannel.send(...)`
TimeoutCurrentRound(s, g) ==
  LET gm == s.games[g] IN
  IF ~HasCurrentEntry(gm) THEN s
  ELSE LET s1 == IF gm.player # "undefined"
                 THEN [s EXCEPT !.games[g].player = "idle"] ELSE s
           s2 == Note(s1, g, gm.currentRound)
       IN Suspend(s2, Task("timeoutSend", g, "u1", gm.currentRound))

\* an advance of the round index that arms no timer
TimeoutResumeNoDelay(s, g) ==
  [s EXCEPT !.games[g].currentRound = @ + 1]

\* timeoutCurrentRound(), after the send (lines 281-282)
TimeoutResume(s, g) ==
  SetRoundTimeout([s EXCEPT !.games[g].currentRound = @ + 1], g,
                  "playNextRound")

\* start(voiceChannel, adapterCreator), up to the send of the rules
GameStart(s, g) ==
  Suspend([s EXCEPT !.games[g].isActive = TRUE,
                    !.games[g].connection = TRUE,
                    !.games[g].player = "idle"],
          Task("startSend", g, "u1", "none"))

\* --------------------------------------------------------- event handlers
Resumed(t) == [Cur EXCEPT !.tasks = @ (-) SetToBag({t})]

Pending(kind) == {t \in DOMAIN tasks : t.kind = kind}

\* a cleanup that empties the registry
DeleteAll(s, gid) ==
  [s EXCEPT !.activeGames = [x \in DOMAIN @ |-> 0]]

\* activeGames.delete(guildId)
Delete(s, gid) == [s EXCEPT !.activeGames[gid] = 0]

\* part_005:213-224, the second messageCreate listener: a message of a guild
\* whose registered game is active goes to checkAnswer.  (It also sees the
\* command messages, which are no skip shortcut and match no entry.)
Message(u, gid, content, sameChannel) ==
  LET g == activeGames[gid] IN
  IF g # 0 /\ games[g].isActive
  THEN ApplyAny(CheckAnswer(Cur, g, u, content, sameChannel))
  ELSE UNCHANGED vars

\* checks that let a user outside the voice channels start
StartRejectedUnlessNamed(gid, inVoice, hasArg) ==
  \/ ~hasArg
  \/ activeGames[gid] # 0 /\ games[activeGames[gid]].isActive

\* case "start", up to `await datastore.getQuizPack(packName)`
StartRejected(gid, inVoice, hasArg) ==
  \/ ~inVoice
  \/ ~hasArg
  \/ activeGames[gid] # 0 /\ games[activeGames[gid]].isActive

StartCmd(u, gid, inVoice, hasArg) ==
  IF StartRejected(gid, inVoice, hasArg) THEN UNCHANGED vars
  ELSE \* an ended game is still registered: deferred cleanup
       Apply(Suspend(Delete(Cur, gid), Task("getQuizPack", 0, u, gid)))

\* case "start", from the pack lookup to the await inside game.start().
\* alive: how many GameState objects may be in use at once
FreeGameIds(s, alive) == {g \in 1..alive : ~s.games[g].created}

StartLookupDone(t, found, len, inVoice, alive) ==
  LET s == Resumed(t)
      free == FreeGameIds(s, alive) IN
  IF ~found THEN Apply(s)
  ELSE IF free = {} THEN FALSE
  ELSE LET g  == CHOOSE i \in free : \A j \in free : i <= j
           s1 == [s EXCEPT !.games[g] = NewGameState(t.x, t.u, len),
                           !.activeGames[t.x] = g]
       IN IF ~inVoice
          THEN \* throw new Error("Invalid voice channel type"), caught
               Apply(Delete(s1, t.x))
          ELSE Apply(GameStart(s1, g))

\* game.start() after the rules are sent, then the handler up to
\* `await datastore.incrementPlayCount(pack.id)`
StartSendDone(t) ==
  Apply(Suspend(SetRoundTimeout(Resumed(t), t.g, "playNextRound"),
                Task("incrementPlayCount", t.g, "u1", games[t.g].guildId)))

\* incrementPlayCount settles; a rejection is caught at part_005:112-116
IncrementDone(t, stored) ==
  IF stored THEN Apply(Resumed(t)) ELSE Apply(Delete(Resumed(t), t.x))

\* a stop that anyone may issue
StopAllowedAnyone(gm, u) == TRUE

\* case "stop"
StopAllowed(gm, u) == u = gm.hostId

StopCmd(u, gid) ==
  LET g == activeGames[gid] IN
  IF g = 0 THEN UNCHANGED vars
  ELSE IF ~StopAllowed(games[g], u) THEN UNCHANGED vars
  ELSE Apply(End([Cur EXCEPT !.hist[g].stopped = TRUE], g, "stop"))

\* a stop handler that leaves the registry entry in place
EndSendDoneKeeping(t) == Apply(EndRelease(Resumed(t), t.g))

\* end() after its send; the stop handler then deletes the registry entry
EndSendDone(t) ==
  LET s1 == EndRelease(Resumed(t), t.g) IN
  IF t.x = "stop" THEN Apply(Delete(s1, games[t.g].guildId)) ELSE Apply(s1)

\* voiceStateUpdate: the bot is the only member left in the channel
VoiceStateUpdate(gid) ==
  LET g == activeGames[gid] IN
  IF g = 0 THEN UNCHANGED vars
  ELSE Apply(Delete(End(Cur, g, "voice"), gid))

\* case "join"
JoinCmd(u, gid) ==
  LET g == activeGames[gid] IN
  IF g = 0 THEN UNCHANGED vars ELSE Apply(AddPlayer(Cur, g, u))

\* case "leave", which falls through into case "skip"
LeaveCmd(u, gid) ==
  LET g == activeGames[gid] IN
  IF g = 0 THEN UNCHANGED vars
  ELSE ApplyAny(VoteSkip(RemovePlayer(Cur, g, u), g, u))

\* case "skip"
SkipCmd(u, gid) ==
  LET g == activeGames[gid] IN
  IF g = 0 THEN UNCHANGED vars ELSE ApplyAny(VoteSkip(Cur, g, u))

\* a pending setTimeout callback runs
TimerFires(tm) ==
  LET s == [Cur EXCEPT !.timers = @ \ {tm}] IN
  IF tm.kind = "playNextRound"
  THEN ApplyAny(PlayNextRound(s, tm.g))
  ELSE Apply(TimeoutCurrentRound(s, tm.g))

\* checkAnswer after the winner is announced (lines 207-215)
AnswerSendDone(t) ==
  Apply([Resumed(t) EXCEPT !.games[t.g].answerDisplayed = TRUE])

TimeoutSendDone(t) == Apply(TimeoutResume(Resumed(t), t.g))

MediaFailSendDone(t) == ApplyAny(MediaFailResume(Resumed(t), t.g))

Init ==
  /\ activeGames = [gid \in Guilds |-> 0]
  /\ games = [g \in GameIds |-> NoGame]
  /\ timers = {}
  /\ tasks = EmptyBag
  /\ hist = [g \in GameIds |-> NoHist]
  /\ probe = NoProbe

\* the steps of a session once it is created
Session ==
  \/ \E t \in Pending("startSend") : StartSendDone(t)
  \/ \E t \in Pending("incrementPlayCount"), stored \in BOOLEAN :
       IncrementDone(t, stored)
  \/ \E u \in Users, gid \in Guilds : StopCmd(u, gid)
  \/ \E t \in Pending("endSend") : EndSendDone(t)
  \/ \E gid \in Guilds : VoiceStateUpdate(gid)
  \/ \E tm \in timers : TimerFires(tm)
  \/ \E t \in Pending("timeoutSend") : TimeoutSendDone(t)
  \/ \E t \in Pending("mediaFail") : MediaFailSendDone(t)

\* what the users of the text channel do in a session
Chat ==
  \/ \E u \in Users, gid \in Guilds : JoinCmd(u, gid)
  \/ \E u \in Users, gid \in Guilds : LeaveCmd(u, gid)
  \/ \E u \in Users, gid \in Guilds : SkipCmd(u, gid)
  \/ \E u \in Users, gid \in Guilds, c \in Contents, ch \in BOOLEAN :
       Message(u, gid, c, ch)
  \/ \E t \in Pending("answerSend") : AnswerSendDone(t)

\* Spec: the sessions of a guild one after the other.  A start command that
\* is not rejected comes when no timer and no handler of an older session is
\* pending, and it is taken up when no older GameState is in use any more;
\* every session then begins in a state that no user is distinguished in, so
\* the user who starts is always the same one.
Starters == {"u1"}

Quiescent == timers = {} /\ tasks = EmptyBag

Next ==
  \/ \E u \in Starters, gid \in Guilds, iv \in BOOLEAN, ha \in BOOLEAN :
       /\ StartRejected(gid, iv, ha) \/ Quiescent
       /\ StartCmd(u, gid, iv, ha)
  \/ \E t \in Pending("getQuizPack"), found \in BOOLEAN, len \in PackLengths,
        iv \in BOOLEAN : StartLookupDone(t, found, len, iv, 1)
  \/ Session
  \/ Chat

Spec == Init /\ [][Next]_vars

\* SpecRace: any user starts, and a start is taken up while older GameState
\* objects are still in use; nobody chats.
NextRace ==
  \/ \E u \in Users, gid \in Guilds, iv \in BOOLEAN, ha \in BOOLEAN :
       StartCmd(u, gid, iv, ha)
  \/ \E t \in Pending("getQuizPack"), found \in BOOLEAN, len \in PackLengths,
        iv \in BOOLEAN : StartLookupDone(t, found, len, iv, MaxGames)
  \/ Session

SpecRace == Init /\ [][NextRace]_vars

\* ================================================================ claims
GameOf(gid) == activeGames[gid]

TimersOf(g) == {tm \in timers : tm.g = g}

RECURSIVE SumScores(_, _)
SumScores(sc, U) ==
  IF U = {} THEN 0
  ELSE LET u == CHOOSE x \in U : TRUE IN sc[u] + SumScores(sc, U \ {u})

\* the points on the scoreboard of a game
TotalScore(gm) == SumScores(gm.scores, Users)

\* end() has run to completion: the voice connection is released
EndCompleted(gm) == gm.created /\ ~gm.isActive /\ ~gm.connection

\* C1: in a running session, the round that was last played or resolved has
\* at most one resolution (Correct, Skipped or Timeout) applied to it, and
\* once the round index has left a round whose playback was started exactly
\* one resolution was applied to that round.
C1_ExactlyOneResolution ==
  \A g \in GameIds :
    games[g].isActive =>
      /\ hist[g].res.n <= 1
      /\ (hist[g].res.p /\ games[g].currentRound # hist[g].res.rnd)
           => hist[g].res.n = 1

\* C2: at most one point is awarded per round, so the points on the
\* scoreboard of a running session never exceed the number of entries of
\* its pack.
C2_OnePointPerRound ==
  \A g \in GameIds :
    games[g].isActive => TotalScore(games[g]) <= games[g].entries

C4_StaleTimeoutNoOp ==
  [][\A t \in DOMAIN tasks :
       (/\ t.kind = "timeoutSend"
        /\ t.x # games[t.g].currentRound
        /\ TimeoutSendDone(t))
       => /\ games'[t.g].currentRound = games[t.g].currentRound
          /\ timers' = timers]_vars

\* C5: at most one live session exists for a room at any time.
C5_OneLiveSession ==
  \A gid \in Guilds :
    Cardinality({g \in GameIds : /\ games[g].created
                                 /\ games[g].isActive
                                 /\ games[g].guildId = gid}) <= 1

\* C6: once the stop of the moderator is processed, no timer of the session
\* is pending, whatever handler of the session was suspended at that time.
C6_NoTimerAfterStop ==
  \A g \in GameIds : hist[g].stopped => TimersOf(g) = {}

\* C7: end() is idempotent; the final leaderboard of a session is announced
\* at most once.
C7_LeaderboardOnce ==
  \A g \in GameIds : hist[g].lb <= 1

\* C8 (as described): a session whose end() has run to completion is no
\* longer in the registry.
C8_EndedNotRegistered ==
  \A g \in GameIds : EndCompleted(games[g]) => ~Registered(Cur, g)

\* C8 (as implemented): the room-empty cleanup deletes the registry entry of
\* the room at once, and the stop handler deletes it when end() has
\* completed; a session that ends by normal completion leaves the registry
\* as it is, and the entry of an ended session is deleted by the next start
\* command that passes the checks of its arguments.
C8_RegistryAfterEnd ==
  [][/\ \A gid \in Guilds :
          (GameOf(gid) # 0 /\ VoiceStateUpdate(gid))
          => activeGames'[gid] = 0
     /\ \A t \in DOMAIN tasks :
          (t.kind = "endSend" /\ t.x = "stop" /\ EndSendDone(t))
          => activeGames'[games[t.g].guildId] = 0
     /\ \A g \in GameIds :
          (/\ games[g].isActive
           /\ games'[g].created /\ ~games'[g].isActive
           /\ CopiesIn(Task("endSend", g, "u1", "natural"), tasks')
                > CopiesIn(Task("endSend", g, "u1", "natural"), tasks))
          => activeGames' = activeGames
     /\ \A u \in Users, gid \in Guilds :
          (/\ GameOf(gid) # 0
           /\ ~games[GameOf(gid)].isActive
           /\ StartCmd(u, gid, TRUE, TRUE))
          => activeGames'[gid] = 0]_vars

\* C8, the case: a session ended by normal completion, its end() has run to
\* completion, and the registry still holds it.
C8_Witness ==
  \E gid \in Guilds :
    /\ GameOf(gid) # 0
    /\ EndCompleted(games[GameOf(gid)])
    /\ ~hist[GameOf(gid)].stopped
    /\ hist[GameOf(gid)].lb = 1

\* C9: a stop command of a user who is not the host of the registered
\* session changes nothing: the active flag, the timers, the round index,
\* the participants, the scores and the registry entry stay as they are.
C9_StopOnlyByHost ==
  [][\A u \in Users, gid \in Guilds :
       (/\ GameOf(gid) # 0
        /\ u # games[GameOf(gid)].hostId
        /\ StopCmd(u, gid))
       => UNCHANGED vars]_vars

\* C9, the case: a round of a running session is in play, its timer is
\* pending, and a participant who is not the host is there to send stop.
C9_Witness ==
  \E gid \in Guilds, u \in Users :
    /\ GameOf(gid) # 0
    /\ games[GameOf(gid)].isActive
    /\ games[GameOf(gid)].player = "playing"
    /\ u # games[GameOf(gid)].hostId
    /\ u \in games[GameOf(gid)].players
    /\ TimersOf(GameOf(gid)) # {}

\* C10: a message of the room (an answer or a skip keyword) and a skip
\* command of a user who is not in the participant set leave the scores, the
\* skip votes, the round index, the participants and the timers unchanged.
C10_NonParticipantNoOp ==
  [][\A u \in Users, gid \in Guilds :
       (/\ GameOf(gid) # 0
        /\ u \notin games[GameOf(gid)].players
        /\ \/ SkipCmd(u, gid)
           \/ Message(u, gid, "match", TRUE)
           \/ Message(u, gid, "skip", TRUE))
       => UNCHANGED <<games, timers, activeGames>>]_vars

\* C10, the case: a round of a running session is in play, its single
\* participant has not voted, and another user is there to answer or to
\* vote: one vote more would be a majority.
C10_Witness ==
  \E gid \in Guilds, u \in Users :
    /\ GameOf(gid) # 0
    /\ games[GameOf(gid)].isActive
    /\ HasCurrentEntry(games[GameOf(gid)])
    /\ games[GameOf(gid)].player = "playing"
    /\ u \notin games[GameOf(gid)].players
    /\ Cardinality(games[GameOf(gid)].players) = 1
    /\ games[GameOf(gid)].skipVoters = {}

\* C11: a message or a skip command is a no-op while no round is Playing.
\* In particular, as long as the playback of the first entry has not been
\* started (the delay after start, the preparation of round 0), no point is
\* on the scoreboard, no skip vote is registered and the round index is 0
\* in every running session.
C11_NoOpBeforePlaying ==
  \A g \in GameIds :
    (games[g].isActive /\ Registered(Cur, g)
       /\ hist[g].res.rnd = 0 /\ ~hist[g].res.p)
    => /\ TotalScore(games[g]) = 0
       /\ games[g].skipVoters = {}
       /\ games[g].currentRound = 0

\* ------------------------------------------------------------- SpecVote
\* SpecVote: the votes of a room of four users.  It begins where the first
\* round of a session of u1 has just started to play (the rules are sent,
\* the play count is stored, the 7 s timer has fired), and no timer runs out
\* while the users join, leave and vote.
Voters == {"u1", "u2", "u3", "u4"}

InitVote ==
  /\ activeGames = [gid \in Guilds |-> 1]
  /\ \E len \in PackLengths :
       games = [g \in GameIds |->
                  IF g = 1
                  THEN [NewGameState("g1", "u1", len) EXCEPT
                          !.isActive = TRUE, !.connection = TRUE,
                          !.player = "playing"]
                  ELSE NoGame]
  /\ timers = {[g |-> 1, kind |-> "timeoutCurrentRound", rnd |-> 0,
                held |-> TRUE]}
  /\ tasks = EmptyBag
  /\ hist = [g \in GameIds |->
               IF g = 1 THEN [NoHist EXCEPT !.res.p = TRUE] ELSE NoHist]
  /\ probe = NoProbe

NextVote ==
  \/ \E u \in Voters, gid \in Guilds : JoinCmd(u, gid)
  \/ \E u \in Voters, gid \in Guilds : LeaveCmd(u, gid)
  \/ \E u \in Voters, gid \in Guilds : SkipCmd(u, gid)
  \/ \E u \in Voters, gid \in Guilds : Message(u, gid, "skip", TRUE)
  \/ \E t \in Pending("mediaFail") : MediaFailSendDone(t)
  \/ \E t \in Pending("endSend") : EndSendDone(t)

SpecVote == InitVote /\ [][NextVote]_vars

\* C12: a skip vote of a participant who has not voted in the round
\* resolves the round as Skipped (the round index moves on by one) if and
\* only if, with the vote added, twice the number of voters is greater than
\* the number of participants; otherwise the vote is registered and the
\* round goes on.  A vote of a participant who has voted already changes
\* nothing.
C12_SkipThreshold ==
  [][\A u \in Voters, gid \in Guilds :
       (/\ GameOf(gid) # 0
        /\ VoteSkipGuard(games[GameOf(gid)], u)
        /\ SkipCmd(u, gid) \/ Message(u, gid, "skip", TRUE))
       => LET gm    == games[GameOf(gid)]
              gm2   == games'[GameOf(gid)]
              votes == gm.skipVoters \cup {u}
          IN IF u \in gm.skipVoters THEN UNCHANGED vars
             ELSE /\ gm2.currentRound \in
                       {gm.currentRound, gm.currentRound + 1}
                  /\ (gm2.currentRound = gm.currentRound + 1)
                       <=> (2 * Cardinality(votes) > Cardinality(gm.players))
                  /\ (gm2.currentRound = gm.currentRound)
                       => gm2.skipVoters = votes]_vars

\* C12, the case: four participants, two of them have voted, and the round
\* is still the one in play.
C12_Witness ==
  \E g \in GameIds :
    /\ games[g].isActive /\ games[g].player = "playing"
    /\ games[g].currentRound = 0
    /\ Cardinality(games[g].players) = 4
    /\ Cardinality(games[g].skipVoters) = 2

\* the step starts the playback of a round of game g (GameState.ts:129) and
\* arms the timer of the round under the handle of g (GameState.ts:141-144)
PlaybackStarts(g) ==
  \/ \E tm \in timers' \ timers :
       tm.g = g /\ tm.kind = "timeoutCurrentRound" /\ tm.held
  \/ games[g].player # "playing" /\ games'[g].player = "playing"

\* C13: whenever the playback of a round starts and its timer is armed, the
\* skip-vote set of the session is empty: no vote of an earlier round (or of
\* a delay before the round) counts for the new round.
C13_VotesCleared ==
  [][\A g \in GameIds :
       PlaybackStarts(g)
       => /\ games'[g].player = "playing"
          /\ games'[g].skipVoters = {}]_vars

\* C13, the case: the second round of a registered session of two
\* participants is in play with its timer armed, and no vote is counted.
C13_Witness ==
  \E g \in GameIds :
    /\ Registered(Cur, g) /\ games[g].isActive
    /\ games[g].currentRound = 1 /\ games[g].player = "playing"
    /\ Cardinality(games[g].players) = 2
    /\ games[g].skipVoters = {}
    /\ \E tm \in TimersOf(g) :
         tm.kind = "timeoutCurrentRound" /\ tm.rnd = 1 /\ tm.held

\* C14: no score ever decreases, and a score changes only by the credit of a
\* matching message, which adds one point to the score of its sender: every
\* other step of a running session (join, leave, skip vote, timeout, media
\* failure) leaves the scores as they are, and so does end().
C14_ScoresMonotone ==
  [][\A g \in GameIds :
       games[g].isActive
       => /\ \A c \in {"stop", "natural", "voice"} :
               End(Cur, g, c).games[g].scores = games[g].scores
          /\ games'[g].isActive
             => \A u \in Users :
                  /\ games'[g].scores[u] >= games[g].scores[u]
                  /\ games'[g].scores[u] # games[g].scores[u]
                     => /\ games'[g].scores[u] = games[g].scores[u] + 1
                        /\ Registered(Cur, g)
                        /\ Message(u, games[g].guildId, "match", TRUE)]_vars

\* C14, the case: a point credited in the first round is on the scoreboard
\* of a session that has moved on to its second round.
C14_Witness ==
  \E g \in GameIds :
    /\ games[g].isActive /\ HasCurrentEntry(games[g])
    /\ games[g].currentRound = 1
    /\ TotalScore(games[g]) > 0

\* C15: when the playback of the entry at index n cannot be started, the
\* failure handling announces the skip and moves the round index of the
\* running session from n to n + 1, no further: the session goes on with
\* entry n + 1.  (A suspended failure handler carries n in its field x.)
C15_MediaFailureAdvancesByOne ==
  [][\A t \in DOMAIN tasks :
       (/\ t.kind = "mediaFail"
        /\ games[t.g].isActive
        /\ MediaFailSendDone(t))
       => /\ games[t.g].currentRound = t.x
          /\ games'[t.g].currentRound = t.x + 1]_vars

\* ------------------------------------------- one GameState, entry by entry
MaxPack         == 3      \* entries of the pack handed to the constructor
MaxRoundSeconds == 60     \* GameState.ts:125, the 60 of playCurrentEntry

\* entry.playDuration in seconds; the editor stores -1 for "to the end"
Durations == {-1, 0, 1, 59, 60, 61, 90}
\* whether the video of the entry can be resolved by yt-dlp
Media     == {"ok", "unresolvable"}

\* an insertion that writes over an element of the sorted part
InsertionsOverwriting(x, s) ==
  IF s = <<>> THEN {<<x>>}
  ELSE { [s EXCEPT ![i] = x] \o <<s[i]>> : i \in 1..Len(s) }
         \cup { [s EXCEPT ![i] = x] \o <<x>> : i \in 1..Len(s) }

\* Array.prototype.sort with the comparator () => Math.random() - 0.5: every
\* element is put into the sorted part at a place that the random answers
\* of the comparator choose.
Insertions(x, s) ==
  { SubSeq(s, 1, i) \o <<x>> \o SubSeq(s, i + 1, Len(s)) : i \in 0..Len(s) }

RECURSIVE SortOutcomes(_)
SortOutcomes(s) ==
  IF s = <<>> THEN {<<>>}
  ELSE UNION { Insertions(s[Len(s)], t) :
                 t \in SortOutcomes(SubSeq(s, 1, Len(s) - 1)) }

\* constructor, GameState.ts:39-42: the entries are copied ([...pack.entries])
\* and the copy is sorted; the caller's array is not written.
Construct(pr) ==
  { [pr EXCEPT !.stage = "constructed", !.entries = e] :
      e \in SortOutcomes(pr.source) }

\* createAudioStream: ytDlp.stream() starts the yt-dlp process and returns
\* its output stream at once; the stream is piped into the bridge and the
\* bridge is returned.  Nothing waits for the process and nothing listens
\* for its failure.  A video that cannot be resolved is found out by the
\* process, after stream() has returned: the bridge then carries nothing and
\* is ended with the producer ("empty") or is never ended ("endless").
\* ytdlp-nodejs is not part of the repository; a stream() that throws is
\* kept as an outcome.
CreateAudioStream(media) ==
  IF media = "ok"
  THEN { [rejected |-> FALSE, stream |-> "data"] }
  ELSE { [rejected |-> TRUE,  stream |-> "none"],
         [rejected |-> FALSE, stream |-> "empty"],
         [rejected |-> FALSE, stream |-> "endless"] }

\* playCurrentEntry, line 124-125
PlayDuration(d) == IF d > 0 THEN d ELSE MaxRoundSeconds

\* playCurrentEntry for the entry of the current round, whose playDuration
\* is d and whose video is media: the catch block stops the player and
\* passes to the next round without a timer; otherwise the resource is
\* played and roundTimeout is armed with playDuration * 1000 ms.
PlayCurrentEntryOf(pr, d, media) ==
  { IF o.rejected
    THEN [pr EXCEPT !.stage = "played", !.playDuration = d, !.media = media,
                    !.rejected = TRUE, !.stream = o.stream,
                    !.player = "idle", !.timeout = 0,
                    !.round = @ + 1]
    ELSE [pr EXCEPT !.stage = "played", !.playDuration = d, !.media = media,
                    !.rejected = FALSE, !.stream = o.stream,
                    !.player = "playing",
                    !.timeout = PlayDuration(d) * 1000]
    : o \in CreateAudioStream(media) }

\* timeoutCurrentRound: player.stop(), currentRound++
TimeoutOf(pr) ==
  [pr EXCEPT !.stage = "resolved", !.player = "idle", !.stream = "none",
             !.timeout = 0, !.round = @ + 1]

Rest == <<activeGames, games, timers, tasks, hist>>

ProbeConstruct ==
  /\ probe.stage = "input"
  /\ probe' \in Construct(probe)
  /\ UNCHANGED Rest

ProbePlay(d, media) ==
  /\ probe.stage \in {"constructed", "played", "resolved"}
  /\ probe.player = "idle"
  /\ probe.round < Len(probe.entries)
  /\ probe' \in PlayCurrentEntryOf(probe, d, media)
  /\ UNCHANGED Rest

ProbeTimeout ==
  /\ probe.player = "playing"
  /\ probe' = TimeoutOf(probe)
  /\ UNCHANGED Rest

InitEntry ==
  /\ activeGames = [gid \in Guilds |-> 0]
  /\ games = [g \in GameIds |-> NoGame]
  /\ timers = {}
  /\ tasks = EmptyBag
  /\ hist = [g \in GameIds |-> NoHist]
  /\ \E n \in 1..MaxPack :
       probe = [NoProbe EXCEPT !.stage = "input",
                               !.source = [i \in 1..n |-> i]]

NextEntry ==
  \/ ProbeConstruct
  \/ \E d \in Durations, media \in Media : ProbePlay(d, media)
  \/ ProbeTimeout

SpecEntry == InitEntry /\ [][NextEntry]_vars

\* C16: an entry whose video cannot be resolved is rejected by
\* createAudioStream before playback: it is never handed to the player, and
\* no round timeout is armed for it.
C16_UnresolvableRejected ==
  (probe.stage = "played" /\ probe.media = "unresolvable")
    => /\ probe.rejected
       /\ probe.player # "playing"
       /\ probe.timeout = 0

\* the 3 s timer of timeoutCurrentRound is pending under the handle of g
AdvanceScheduled(g, T) ==
  \E tm \in T : tm.g = g /\ tm.kind = "playNextRound" /\ tm.held

\* u's skip vote reaches the majority in the game of guild gid
ConsensusStep(u, gid) ==
  /\ GameOf(gid) # 0
  /\ VoteSkipGuard(games[GameOf(gid)], u)
  /\ u \notin games[GameOf(gid)].skipVoters
  /\ SkipConsensus([games[GameOf(gid)] EXCEPT !.skipVoters = @ \cup {u}])
  /\ SkipCmd(u, gid) \/ Message(u, gid, "skip", TRUE)

C18_StopBeforePlay ==
  [][\A g \in GameIds :
       (PlaybackStarts(g) /\ games[g].player = "playing")
       => \E t \in DOMAIN tasks :
            t.kind = "mediaFail" /\ t.g = g /\ MediaFailSendDone(t)]_vars

\* C19: the timeout armed for an entry is min(playDuration, MaxRoundSeconds)
\* seconds when playDuration is positive and MaxRoundSeconds when it is not;
\* it is never longer than MaxRoundSeconds.
C19_TimeoutClipped ==
  (probe.stage = "played" /\ ~probe.rejected)
    => /\ probe.timeout =
            1000 * (IF probe.playDuration > 0
                    THEN (IF probe.playDuration < MaxRoundSeconds
                          THEN probe.playDuration ELSE MaxRoundSeconds)
                    ELSE MaxRoundSeconds)
       /\ probe.timeout <= 1000 * MaxRoundSeconds

\* how often x occurs in the sequence s
Count(x, s) == Cardinality({i \in DOMAIN s : s[i] = x})

IsPermutation(a, b) ==
  /\ Len(a) = Len(b)
  /\ \A i \in DOMAIN b : Count(b[i], a) = Count(b[i], b)

\* C20: the entry sequence that the constructor builds is a permutation of
\* the entries of the source pack (same length, every entry exactly once);
\* no later step changes it, and the entry list of the source pack is the
\* one that was handed in.
C20_ShuffleIsPermutation ==
  [][/\ probe'.source = probe.source
     /\ probe.stage = "input"
          => IsPermutation(probe'.entries, probe.source)
     /\ probe.stage \in {"constructed", "played", "resolved"}
          => /\ probe'.entries = probe.entries
             /\ IsPermutation(probe'.entries, probe'.source)]_vars

\* C20, the case: a pack of more than one entry whose session order differs
\* from the order of the pack, after a round was played from it.
C20_Witness ==
  /\ probe.stage = "resolved"
  /\ Len(probe.source) >= 2
  /\ probe.entries # probe.source
  /\ IsPermutation(probe.entries, probe.source)

\* ------------------------------------------------------ the stream bridge
\* createStreamBridge (src/src/bot/index.ts:219-242): a Duplex whose
\* write() pushes the chunk to its own readable side and whose final()
\* pushes null.  `probe` holds the bridge with its producer and consumer:
\*   written  the chunks the producer has written, in order
\*   buffer   the readable side: chunks pushed and not yet read
\*   out      the chunks the consumer has read, in order
\*   finished the producer has called end() and final() has run
\*   eof      null was pushed to the readable side
\*   ends     how often the consumer has seen 'end'
MaxChunks == 3      \* chunks the producer writes
Chunks    == {"a", "b"}

NoBridge ==
  [ written |-> <<>>, buffer |-> <<>>, out |-> <<>>,
    finished |-> FALSE, eof |-> FALSE, ends |-> 0 ]

\* a push that has no room beyond two buffered chunks and drops the chunk
PushBounded(b, chunk) ==
  IF Len(b.buffer) >= 2 THEN b ELSE [b EXCEPT !.buffer = Append(@, chunk)]

\* bridge.push(chunk): Readable.push appends to the buffer of the readable
\* side whatever the fill level (the return value, which write() ignores,
\* is the only trace of the high-water mark); push(null) marks the end.
Push(b, chunk) == [b EXCEPT !.buffer = Append(@, chunk)]

PushNull(b) == [b EXCEPT !.eof = TRUE]

\* write(chunk, encoding, callback): bridge.push(chunk); callback()
BridgeWrite(b, chunk) == Push([b EXCEPT !.written = Append(@, chunk)], chunk)

\* final(callback): bridge.push(null); callback()
BridgeFinal(b) == PushNull([b EXCEPT !.finished = TRUE])

\* the consumer takes the first n buffered chunks; read() itself does nothing
BridgeRead(b, n) ==
  [b EXCEPT !.out = @ \o SubSeq(b.buffer, 1, n),
            !.buffer = SubSeq(@, n + 1, Len(@))]

ProducerWrites(chunk) ==
  /\ ~probe.finished
  /\ Len(probe.written) < MaxChunks
  /\ probe' = BridgeWrite(probe, chunk)
  /\ UNCHANGED Rest

ProducerEnds ==
  /\ ~probe.finished
  /\ probe' = BridgeFinal(probe)
  /\ UNCHANGED Rest

ConsumerReads(n) ==
  /\ n <= Len(probe.buffer)
  /\ probe' = BridgeRead(probe, n)
  /\ UNCHANGED Rest

\* Readable emits 'end' when null was pushed and the buffer is drained
ConsumerSeesEnd ==
  /\ probe.eof /\ probe.buffer = <<>>
  /\ probe.ends = 0
  /\ probe' = [probe EXCEPT !.ends = 1]
  /\ UNCHANGED Rest

InitBridge ==
  /\ activeGames = [gid \in Guilds |-> 0]
  /\ games = [g \in GameIds |-> NoGame]
  /\ timers = {}
  /\ tasks = EmptyBag
  /\ hist = [g \in GameIds |-> NoHist]
  /\ probe = NoBridge

NextBridge ==
  \/ \E chunk \in Chunks : ProducerWrites(chunk)
  \/ ProducerEnds
  \/ \E n \in 1..MaxChunks : ConsumerReads(n)
  \/ ConsumerSeesEnd

SpecBridge == InitBridge /\ [][NextBridge]_vars

\* C21: whatever the interleaving of writes and reads, the chunks read
\* followed by the chunks buffered are the chunks written, in write order
\* (a written chunk is buffered by the write itself; none is lost or
\* doubled); the end marker is pushed by the producer's end and by nothing
\* else, and the consumer sees 'end' at most once and only when it has read
\* every chunk written.
C21_BridgeRelaysInOrder ==
  /\ probe.out \o probe.buffer = probe.written
  /\ probe.eof <=> probe.finished
  /\ probe.ends <= 1
  /\ probe.ends = 1 => (probe.finished /\ probe.out = probe.written)

\* C21, the case: writes and reads were interleaved (a chunk was read, a
\* later one is still buffered), then the producer ended; and the consumer
\* that has drained the bridge has seen 'end'.
C21_Witness ==
  /\ Len(probe.written) = MaxChunks
  /\ probe.ends = 1
  /\ probe.out = probe.written
  /\ probe.written[1] # probe.written[2]

\* ------------------------------------------------------- answer matching
\* Strings are sequences of characters.  "ß" stands for the characters
\* whose upper case is not one character that lowers back to them
\* ("ß".toUpperCase() is "SS"), " " for the characters that \s matches.
MaxGuess == 2       \* characters of a guess
Chars    == {"a", "A", "ß", " "}
Titles   == { <<"A", " ", "a">>, <<"a", "A">>, <<"ß">>, <<"A", "ß">> }

StringsUpTo(n) == UNION { [1..k -> Chars] : k \in 0..n }

\* String.prototype.toLowerCase / toUpperCase, character by character
LowerChar(c) == IF c = "A" THEN <<"a">> ELSE IF c = "S" THEN <<"s">> ELSE <<c>>

UpperChar(c) ==
  IF c = "a" THEN <<"A">> ELSE IF c = "s" THEN <<"S">>
  ELSE IF c = "ß" THEN <<"S", "S">> ELSE <<c>>

RECURSIVE ToLowerCase(_)
ToLowerCase(s) ==
  IF s = <<>> THEN <<>> ELSE LowerChar(Head(s)) \o ToLowerCase(Tail(s))

RECURSIVE ToUpperCase(_)
ToUpperCase(s) ==
  IF s = <<>> THEN <<>> ELSE UpperChar(Head(s)) \o ToUpperCase(Tail(s))

\* x.replace(/\s+/g, "")
WithoutSpacing(s) == SelectSeq(s, LAMBDA c : c # " ")

\* one step of the reduce that leaves out the variants without spacing
VariantsSpaced(x) == { ToLowerCase(x), x }

\* generatePossibleAnswers, one step of the reduce: the four acc.add(...)
Variants(x) ==
  { ToLowerCase(x), WithoutSpacing(x), ToLowerCase(WithoutSpacing(x)), x }

\* generatePossibleAnswers(entry): the reduce over
\* [entry.canonicalName, ...entry.possibleAnswers]
RECURSIVE Reduce(_)
Reduce(answers) ==
  IF answers = <<>> THEN {}
  ELSE Reduce(SubSeq(answers, 1, Len(answers) - 1))
         \cup Variants(answers[Len(answers)])

GeneratePossibleAnswers(entry) ==
  Reduce(<<entry.canonicalName>> \o entry.possibleAnswers)

\* isCorrectAnswer(answer, entry)
IsCorrectAnswer(answer, entry) == answer \in GeneratePossibleAnswers(entry)

\* checkAnswer, lines 192 and 198, for a text that is an answer attempt
\* (not a skip keyword): const answer = message.content.toLowerCase()
Matches(entry, content) == IsCorrectAnswer(ToLowerCase(content), entry)

\* `probe` holds an entry, a message text and what checkAnswer finds for the
\* text as typed, in upper case and in lower case.
CheckGuess ==
  /\ probe.stage = "input"
  /\ probe' = [probe EXCEPT
                 !.stage = "checked",
                 !.asTyped = Matches(probe.entry, probe.guess),
                 !.upper = Matches(probe.entry, ToUpperCase(probe.guess)),
                 !.lower = Matches(probe.entry, ToLowerCase(probe.guess))]
  /\ UNCHANGED Rest

\* the next message arrives
NextGuess(g) ==
  /\ probe.stage = "checked"
  /\ probe' = [probe EXCEPT !.stage = "input", !.guess = g,
                            !.asTyped = FALSE, !.upper = FALSE,
                            !.lower = FALSE]
  /\ UNCHANGED Rest

InitAnswer ==
  /\ activeGames = [gid \in Guilds |-> 0]
  /\ games = [g \in GameIds |-> NoGame]
  /\ timers = {}
  /\ tasks = EmptyBag
  /\ hist = [g \in GameIds |-> NoHist]
  /\ \E c \in Titles, alt \in {<<>>} \cup { <<t>> : t \in Titles },
        g \in StringsUpTo(MaxGuess) :
       probe = [ stage |-> "input",
                 entry |-> [canonicalName |-> c, possibleAnswers |-> alt],
                 guess |-> g,
                 asTyped |-> FALSE, upper |-> FALSE, lower |-> FALSE ]

NextAnswer ==
  \/ CheckGuess
  \/ \E g \in StringsUpTo(MaxGuess) : NextGuess(g)

SpecAnswer == InitAnswer /\ [][NextAnswer]_vars

\* C22: a message text, the text in upper case and the text in lower case
\* get the same match result, for every entry.
C22_CaseInsensitive ==
  probe.stage = "checked"
    => (probe.asTyped = probe.upper /\ probe.asTyped = probe.lower)

\* the answers stored with an entry
Stored(entry) ==
  {entry.canonicalName} \cup
    { entry.possibleAnswers[i] : i \in DOMAIN entry.possibleAnswers }

\* C23: a text matches an entry exactly if the text in lower case, with its
\* whitespace as typed, is one of the stored answers as stored, lowered,
\* without whitespace, or lowered and without whitespace.  A stored answer
\* typed without its whitespace matches; a text that is none of the variants
\* and agrees with a stored answer only once the whitespace of both is
\* taken out does not.
C23_MatchIffVariant ==
  probe.stage = "checked"
    => LET st == Stored(probe.entry)
           vs == st \cup { ToLowerCase(x) : x \in st }
                    \cup { WithoutSpacing(x) : x \in st }
                    \cup { WithoutSpacing(ToLowerCase(x)) : x \in st }
           g  == ToLowerCase(probe.guess)
       IN /\ probe.asTyped <=> g \in vs
          /\ (\E x \in st : probe.guess = WithoutSpacing(x)) => probe.asTyped
          /\ (/\ g \notin vs
              /\ \E v \in vs : WithoutSpacing(g) = WithoutSpacing(v))
               => ~probe.asTyped

\* C23, the cases: a stored answer with whitespace, typed without it, is a
\* match ...
C23_Witness ==
  /\ probe.stage = "checked" /\ probe.asTyped
  /\ \E x \in Stored(probe.entry) :
       /\ WithoutSpacing(x) # x
       /\ probe.guess = WithoutSpacing(x)

\* ------------------------------------------------- scores and leaderboard
\* this.scores is a Map: its entries keep the order in which their keys were
\* first set.  `probe` holds the players, the values of the Map (0: no
\* entry), the order of its keys, and the last score listing built from it:
\*   board  the sorted entries, shown: a listing was just built,
\*   first  the users in the order of their first credit (observation)
MaxCredits == 3      \* points one user can reach
Ledgered   == {"u1", "u2", "u3"}

\* a sort that lets a later entry pass the entries of equal score
InsertDescUnstable(e, s) ==
  LET k == Cardinality({i \in DOMAIN s : s[i][2] > e[2]})
  IN SubSeq(s, 1, k) \o <<e>> \o SubSeq(s, k + 1, Len(s))

\* Array.prototype.sort(([, a], [, b]) => b - a) is stable: an entry comes
\* after the entries before it whose score is not lower.
InsertDesc(e, s) ==
  LET k == Cardinality({i \in DOMAIN s : s[i][2] >= e[2]})
  IN SubSeq(s, 1, k) \o <<e>> \o SubSeq(s, k + 1, Len(s))

RECURSIVE SortDesc(_)
SortDesc(s) ==
  IF s = <<>> THEN <<>>
  ELSE InsertDesc(s[Len(s)], SortDesc(SubSeq(s, 1, Len(s) - 1)))

\* [...this.scores.entries()].sort(...) of end() and of case "scores"
SortedScores(gm) ==
  SortDesc([i \in DOMAIN gm.order |-> <<gm.order[i], gm.scores[gm.order[i]]>>])

\* checkAnswer, lines 200-201: scores.set(id, (scores.get(id) || 0) + 1)
Credit(gm, u) ==
  [gm EXCEPT !.scores[u] = @ + 1,
             !.order = IF gm.scores[u] = 0 /\ \A i \in DOMAIN @ : @[i] # u
                       THEN Append(@, u) ELSE @,
             !.first = IF \E i \in DOMAIN @ : @[i] = u THEN @
                       ELSE Append(@, u)]

Hidden(gm) == [gm EXCEPT !.shown = FALSE, !.board = <<>>]

LedgerJoin(u) ==
  /\ probe.isActive
  /\ probe' = AddPlayer([games |-> <<Hidden(probe)>>], 1, u).games[1]
  /\ UNCHANGED Rest

LedgerLeave(u) ==
  /\ probe.isActive
  /\ probe' = RemovePlayer([games |-> <<Hidden(probe)>>], 1, u).games[1]
  /\ UNCHANGED Rest

LedgerCredit(u) ==
  /\ probe.isActive /\ u \in probe.players
  /\ probe.scores[u] < MaxCredits
  /\ probe' = Credit(Hidden(probe), u)
  /\ UNCHANGED Rest

\* case "scores" (part_005:134-156) when ending = FALSE, end() otherwise
LedgerListing(ending) ==
  /\ probe.isActive
  /\ probe' = [probe EXCEPT !.isActive = ~ending, !.shown = TRUE,
                            !.board = SortedScores(probe)]
  /\ UNCHANGED Rest

InitLedger ==
  /\ activeGames = [gid \in Guilds |-> 0]
  /\ games = [g \in GameIds |-> NoGame]
  /\ timers = {}
  /\ tasks = EmptyBag
  /\ hist = [g \in GameIds |-> NoHist]
  /\ probe = [ isActive |-> TRUE, players |-> {"u1"},
               scores |-> [u \in Ledgered |-> 0], order |-> <<>>,
               first |-> <<>>, shown |-> FALSE, board |-> <<>> ]

NextLedger ==
  \/ \E u \in Ledgered : LedgerJoin(u)
  \/ \E u \in Ledgered : LedgerLeave(u)
  \/ \E u \in Ledgered : LedgerCredit(u)
  \/ \E ending \in BOOLEAN : LedgerListing(ending)

SpecLedger == InitLedger /\ [][NextLedger]_vars

\* C24: a leave takes the user out of the players and changes no score; no
\* step lowers or removes a score; and a score listing names every user who
\* holds points, with these points, whether the user is still a player or
\* not.
C24_LeaveKeepsScore ==
  [][/\ \A u \in Ledgered :
          LedgerLeave(u)
          => /\ probe'.players = probe.players \ {u}
             /\ probe'.scores = probe.scores
             /\ probe'.order = probe.order
     /\ \A u \in Ledgered : probe'.scores[u] >= probe.scores[u]
     /\ probe'.shown
          => \A u \in Ledgered :
               probe.scores[u] > 0
               => \E i \in DOMAIN probe'.board :
                    probe'.board[i] = <<u, probe.scores[u]>>]_vars

\* C24, the case: the final listing names a user who has left with a point.
C24_Witness ==
  /\ probe.shown /\ ~probe.isActive
  /\ \E i \in DOMAIN probe.board :
       probe.board[i][1] \notin probe.players /\ probe.board[i][2] > 0

\* C25: a score listing (the final one and the one of the scores query)
\* names exactly the users credited at least once, each once and with the
\* user's score, in descending order of score, users of equal score in the
\* order of their first credit.
C25_RankStableDescending ==
  probe.shown
    => LET b == probe.board
           At(u) == CHOOSE k \in DOMAIN probe.first : probe.first[k] = u
       IN /\ Len(b) = Len(probe.first)
          /\ {b[i][1] : i \in DOMAIN b}
               = {probe.first[k] : k \in DOMAIN probe.first}
          /\ {b[i][1] : i \in DOMAIN b} = {u \in Ledgered : probe.scores[u] > 0}
          /\ \A i \in DOMAIN b : b[i][2] = probe.scores[b[i][1]]
          /\ \A i, j \in DOMAIN b :
               i < j => /\ b[i][2] >= b[j][2]
                        /\ b[i][2] = b[j][2] => At(b[i][1]) < At(b[j][1])

\* C25, the case: three users are listed; the user credited first is not
\* the leader, and the two users behind the leader are level.
C25_Witness ==
  /\ probe.shown /\ Len(probe.board) = 3
  /\ probe.board[1][2] > probe.board[2][2]
  /\ probe.board[2][2] = probe.board[3][2]
  /\ probe.first[1] # probe.board[1][1]

\* C26: the announcement of a skip majority reveals the answer exactly if
\* no correct answer was announced in the round that is skipped.  voteSkip
\* reveals it exactly if answerDisplayed is false; a round in play in which
\* nothing was resolved yet has no announced answer, and a round in play
\* with a resolution and no timeout announcement under way has one.
C26_RevealOnce ==
  [][\A u \in Users, gid \in Guilds :
       ConsensusStep(u, gid)
       => LET g == GameOf(gid)
              r == games[g].currentRound
          IN (hist[g].res.rnd = r /\ hist[g].res.p)
             => /\ hist[g].res.n = 0 => ~games[g].answerDisplayed
                /\ (/\ hist[g].res.n > 0
                    /\ ~\E t \in DOMAIN tasks :
                          t.kind = "timeoutSend" /\ t.g = g)
                     => games[g].answerDisplayed]_vars

\* the start command fails one of the checks of lines 63-80
SetupError(gid, inVoice, hasArg) ==
  \/ ~inVoice
  \/ ~hasArg
  \/ GameOf(gid) # 0 /\ games[GameOf(gid)].isActive

\* C27 (as stated): a start command changes nothing unless it succeeds: the
\* registry is as it was when the command came for as long as the pack is
\* not found.
C27_RejectedStartNoChange ==
  [][/\ \A u \in Starters, gid \in Guilds, iv \in BOOLEAN, ha \in BOOLEAN :
          StartCmd(u, gid, iv, ha) => activeGames' = activeGames
     /\ \A t \in DOMAIN tasks, len \in PackLengths, iv \in BOOLEAN :
          (t.kind = "getQuizPack" /\ StartLookupDone(t, FALSE, len, iv, 1))
          => activeGames' = activeGames]_vars

\* C27 (as implemented): a start command that fails the check of the voice
\* channel, of the pack name or of the running session changes nothing.  A
\* command that passes them first deletes the registry entry of a session
\* that has ended (deferred cleanup) and changes nothing else; when the pack
\* is then not found, the rejection changes nothing more: no session is
\* created, and no play count is stored.
C27_RejectedStartKeepsSessions ==
  [][/\ \A u \in Starters, gid \in Guilds, iv \in BOOLEAN, ha \in BOOLEAN :
          StartCmd(u, gid, iv, ha)
          => IF SetupError(gid, iv, ha) THEN UNCHANGED vars
             ELSE /\ activeGames' = [activeGames EXCEPT ![gid] = 0]
                  /\ \A g \in GameIds :
                       games[g].isActive => games'[g] = games[g]
                  /\ timers' = timers
     /\ \A t \in DOMAIN tasks, len \in PackLengths, iv \in BOOLEAN :
          (t.kind = "getQuizPack" /\ StartLookupDone(t, FALSE, len, iv, 1))
          => /\ UNCHANGED <<activeGames, games, timers, hist>>
             /\ tasks' (+) SetToBag({t}) = tasks]_vars

\* C27, the case: a start command has passed the checks while no session
\* runs, and its pack is being looked up.
C27_Witness ==
  /\ \E t \in DOMAIN tasks : t.kind = "getQuizPack"
  /\ \A gid \in Guilds : activeGames[gid] = 0

\* ------------------------------------------------------------- two rooms
\* SpecRooms: two guilds, each with a session of its own that has just
\* started (game 1 of host u1 in g1, game 2 of host u2 in g2; the rules
\* are sent, the play count is stored and the 7 s timer is pending).  Each
\* host acts in the room of the session; every handler but the start
\* command runs, for either guild.
Rooms == {"g1", "g2"}

HostOf(gid) == IF gid = "g1" THEN "u1" ELSE "u2"

InitRooms ==
  /\ activeGames = [gid \in Rooms |-> IF gid = "g1" THEN 1 ELSE 2]
  /\ games = [g \in GameIds |->
                IF g <= 2
                THEN [NewGameState(IF g = 1 THEN "g1" ELSE "g2",
                                   IF g = 1 THEN "u1" ELSE "u2", 1)
                        EXCEPT !.isActive = TRUE, !.connection = TRUE,
                               !.player = "idle"]
                ELSE NoGame]
  /\ timers = {[g |-> g, kind |-> "playNextRound", rnd |-> 0,
                held |-> TRUE] : g \in {1, 2}}
  /\ tasks = EmptyBag
  /\ hist = [g \in GameIds |-> NoHist]
  /\ probe = NoProbe

NextRooms ==
  \/ \E gid \in Rooms : StopCmd(HostOf(gid), gid)
  \/ \E gid \in Rooms : VoiceStateUpdate(gid)
  \/ \E gid \in Rooms : JoinCmd(HostOf(gid), gid)
  \/ \E gid \in Rooms : LeaveCmd(HostOf(gid), gid)
  \/ \E gid \in Rooms : SkipCmd(HostOf(gid), gid)
  \/ \E gid \in Rooms, c \in {"match", "skip"} :
       Message(HostOf(gid), gid, c, TRUE)
  \/ \E tm \in timers : TimerFires(tm)
  \/ \E t \in Pending("endSend") : EndSendDone(t)
  \/ \E t \in Pending("timeoutSend") : TimeoutSendDone(t)
  \/ \E t \in Pending("mediaFail") : MediaFailSendDone(t)
  \/ \E t \in Pending("answerSend") : AnswerSendDone(t)

SpecRooms == InitRooms /\ [][NextRooms]_vars

\* the session of a room in SpecRooms, and all that belongs to it
RoomGame(gid) == IF gid = "g1" THEN 1 ELSE 2

RoomView(g) ==
  << {gid \in DOMAIN activeGames : activeGames[gid] = g},
     games[g], TimersOf(g),
     [t \in {x \in DOMAIN tasks : x.g = g} |-> tasks[t]],
     hist[g] >>

\* the step is a handler that runs for guild gid or for its session
RoomStep(gid) ==
  \/ \E u \in Users :
       \/ StopCmd(u, gid) \/ JoinCmd(u, gid) \/ LeaveCmd(u, gid)
       \/ SkipCmd(u, gid)
       \/ \E c \in {"match", "skip"} : Message(u, gid, c, TRUE)
  \/ VoiceStateUpdate(gid)
  \/ \E tm \in TimersOf(RoomGame(gid)) : TimerFires(tm)
  \/ \E t \in DOMAIN tasks :
       /\ t.g = RoomGame(gid)
       /\ \/ t.kind = "endSend" /\ EndSendDone(t)
          \/ t.kind = "timeoutSend" /\ TimeoutSendDone(t)
          \/ t.kind = "mediaFail" /\ MediaFailSendDone(t)
          \/ t.kind = "answerSend" /\ AnswerSendDone(t)

\* C28: a handler that runs for one room (a message, a vote, a join, a
\* leave, a stop, the room-empty cleanup, a timer of its session, the
\* continuation of a timeout, of a media failure, of an answer or of the
\* end) leaves the session of the other room as it is: its registry entry,
\* participants, scores, round index, votes, active flag, player, timers
\* and suspended handlers.
C28_RoomsIndependent ==
  [][\A gid \in Rooms, other \in Rooms :
       \/ other = gid
       \/ RoomView(RoomGame(other))' = RoomView(RoomGame(other))
       \/ ~RoomStep(gid)]_vars

\* C28, the case: the session of g1 was stopped and has left the registry,
\* and the session of g2 plays its round with a point on its ledger.
C28_Witness ==
  /\ activeGames["g1"] = 0 /\ ~games[1].isActive
  /\ activeGames["g2"] = 2
  /\ games[2].isActive /\ games[2].player = "playing"
  /\ TotalScore(games[2]) > 0

\* ---------------------------------------------------------------------
\* The catalog API: PUT and GET of /api/pack/:pack_id over the SQLite
\* datastore.  The store is one database connection shared by every
\* request; a handler runs up to its next awaited statement, so the
\* statements of requests in flight interleave.  probe holds the two
\* tables, the connection's transaction, the requests in flight and the
\* response sent by the step just taken.
Slots == {"a", "b"}

PackIds == {"p1", "p2", "p3"}

\* name and entries of a request body: a new entry under a new name, and
\* the first pack's entry with another title under the old name
Updates ==
  {[name |-> "m", entries |-> <<[id |-> "e3", title |-> "x"]>>],
   [name |-> "n", entries |-> <<[id |-> "e1", title |-> "y"]>>]}

NoBody == [id |-> "", name |-> "", entries |-> <<>>]

Bodies ==
  {[id |-> id, name |-> u.name, entries |-> u.entries] :
     id \in PackIds, u \in Updates}

NoReq == [kind |-> "none", url |-> "", body |-> NoBody, at |-> "", i |-> 0,
          row |-> ""]

NoResp == [kind |-> "none", url |-> "", status |-> 0, name |-> "",
           entries |-> {}]

\* quiz_packs: id -> name; quiz_entries: entry id -> row.  The seed is a
\* catalog of two packs of one entry each.
SeededCatalog ==
  [packs   |-> ("p1" :> "n" @@ "p2" :> "n"),
   entries |-> ("e1" :> [pack |-> "p1", title |-> "x"]
                @@ "e2" :> [pack |-> "p2", title |-> "x"]),
   inTx    |-> FALSE,
   saved   |-> <<>>,
   reqs    |-> [s \in Slots |-> NoReq],
   resp    |-> NoResp]

\* SELECT * FROM quiz_entries WHERE quiz_pack_id = ?, through
\* #rowToQuizEntry
EntriesOf(c, id) ==
  {[id |-> e, title |-> c.entries[e].title] :
     e \in {x \in DOMAIN c.entries : c.entries[x].pack = id}}

Respond(c, s, status, name, entries) ==
  [c EXCEPT !.reqs[s] = NoReq,
            !.resp = [kind |-> c.reqs[s].kind, url |-> c.reqs[s].url,
                      status |-> status, name |-> name, entries |-> entries]]

Goto(c, s, at) == [c EXCEPT !.reqs[s].at = at, !.resp = NoResp]

\* the route after getQuizPack has answered with a pack
PutCheckedAnyBody(c, s) == Goto(c, s, "begin")

PutChecked(c, s) ==
  IF c.reqs[s].body.id # c.reqs[s].url
    THEN Respond(c, s, 400, "", {})
    ELSE Goto(c, s, "begin")

\* getQuizPack, one awaited statement a step, and what the route does
\* with its answer (PUT only tests the answer for null)
GetQuizPack(c, s) ==
  LET r == c.reqs[s] IN
  CASE r.at = "get" ->
         IF r.url \notin DOMAIN c.packs
           THEN Respond(c, s, 404, "", {})
           ELSE [Goto(c, s, "rows") EXCEPT
                   !.reqs[s].row = IF r.kind = "GET" THEN c.packs[r.url]
                                                     ELSE ""]
    [] r.at = "rows" ->
         IF r.kind = "GET"
           THEN Respond(c, s, 200, r.row, EntriesOf(c, r.url))
           ELSE PutChecked(c, s)

\* the statement awaited after the INSERT of entry i - 1
AfterEntry(r, i) == IF i <= Len(r.body.entries) THEN "insert" ELSE "tags"

\* updateQuizPack, one awaited statement a step: at names the statement
\* awaited.  A statement that fails lands in the catch block, whose
\* ROLLBACK is awaited too, and the route answers 200 after either ending.
\* The bodies carry no tags: of the statements on tags only the DELETE of
\* the pack's tags runs.  Foreign keys are not enforced on the connection.
UpdateQuizPack(c, s) ==
  LET r == c.reqs[s] IN
  CASE r.at = "begin" ->
         IF c.inTx
           THEN Goto(c, s, "rollback")
           ELSE [Goto(c, s, "replace") EXCEPT
                   !.inTx = TRUE,
                   !.saved = <<c.packs, c.entries>>]
    [] r.at = "replace" ->
         [Goto(c, s, "delete") EXCEPT
            !.packs = (r.url :> r.body.name) @@ c.packs]
    [] r.at = "delete" ->
         [Goto(c, s, AfterEntry(r, 1)) EXCEPT
                   !.reqs[s].i = 1,
                   !.entries = [e \in {x \in DOMAIN c.entries :
                                         c.entries[x].pack # r.url}
                                  |-> c.entries[e]]]
    [] r.at = "insert" ->
         LET entry == r.body.entries[r.i] IN
         IF entry.id \in DOMAIN c.entries
           THEN Goto(c, s, "rollback")
           ELSE [Goto(c, s, AfterEntry(r, r.i + 1)) EXCEPT
                          !.reqs[s].i = r.i + 1,
                          !.entries = (entry.id :> [pack |-> r.url,
                                                    title |-> entry.title])
                                      @@ c.entries]
    [] r.at = "tags" -> Goto(c, s, "commit")
    [] r.at = "commit" ->
         IF c.inTx
           THEN [Respond(c, s, 200, "", {}) EXCEPT
                   !.inTx = FALSE, !.saved = <<>>]
           ELSE Goto(c, s, "rollback")
    [] r.at = "rollback" ->
         IF c.inTx
           THEN [Respond(c, s, 200, "", {}) EXCEPT
                   !.packs = c.saved[1], !.entries = c.saved[2],
                   !.inTx = FALSE, !.saved = <<>>]
           ELSE Respond(c, s, 200, "", {})

\* a request arrives
PutArrives(s, url, body) ==
  /\ probe.reqs[s] = NoReq
  /\ probe' = [probe EXCEPT !.resp = NoResp,
                            !.reqs[s] = [kind |-> "PUT", url |-> url,
                                         body |-> body, at |-> "get",
                                         i |-> 0, row |-> ""]]
  /\ UNCHANGED Rest

GetArrives(s, url) ==
  /\ probe.reqs[s] = NoReq
  /\ probe' = [probe EXCEPT !.resp = NoResp,
                            !.reqs[s] = [kind |-> "GET", url |-> url,
                                         body |-> NoBody, at |-> "get",
                                         i |-> 0, row |-> ""]]
  /\ UNCHANGED Rest

\* the statement a request awaits completes
Lookup(s) ==
  /\ probe.reqs[s].at \in {"get", "rows"}
  /\ probe' = GetQuizPack(probe, s)
  /\ UNCHANGED Rest

Update(s) ==
  /\ probe.reqs[s].at \in {"begin", "replace", "delete", "insert", "tags",
                         "commit", "rollback"}
  /\ probe' = UpdateQuizPack(probe, s)
  /\ UNCHANGED Rest

InitCatalog ==
  /\ activeGames = [gid \in Guilds |-> 0]
  /\ games = [g \in GameIds |-> NoGame]
  /\ timers = {}
  /\ tasks = EmptyBag
  /\ hist = [g \in GameIds |-> NoHist]
  /\ probe = SeededCatalog

NextCatalog ==
  \/ \E s \in Slots, url \in PackIds, body \in Bodies :
       PutArrives(s, url, body)
  \/ \E s \in Slots, url \in PackIds : GetArrives(s, url)
  \/ \E s \in Slots : Lookup(s)
  \/ \E s \in Slots : Update(s)

SpecCatalog == InitCatalog /\ [][NextCatalog]_vars

\* the step is one of the request in slot s
StepOf(s) == probe.reqs[s] # NoReq /\ probe'.reqs[s] # probe.reqs[s]

Answered(s, status) ==
  /\ StepOf(s)
  /\ probe'.reqs[s] = NoReq
  /\ probe'.resp.status = status

Tables(c) == <<c.packs, c.entries, c.inTx, c.saved>>

\* C29: a PUT that has not passed both checks of the route changes nothing
\* in the store: its lookup only reads; it is answered 404 by the lookup
\* that finds no pack under the id of the URL, and then no pack is stored
\* under that id; it is answered 400 once the lookup has found the pack and
\* the id of the body differs from the id of the URL; and only a PUT whose
\* body carries the id of the URL ever reaches the update.
C29_RejectedPutChangesNothing ==
  [][\A s \in Slots :
       LET r == probe.reqs[s] IN
       \/ ~(StepOf(s) /\ r.kind = "PUT")
       \/ /\ r.at \in {"get", "rows"} => Tables(probe') = Tables(probe)
          /\ (r.at = "get" /\ r.url \notin DOMAIN probe.packs)
               <=> Answered(s, 404)
          /\ Answered(s, 404) => r.url \notin DOMAIN probe'.packs
          /\ (r.at = "rows" /\ r.body.id # r.url) <=> Answered(s, 400)
          /\ probe'.reqs[s].at = "begin"
               => r.body.id = r.url /\ r.url \in DOMAIN probe.packs]_vars

\* a PUT with another id in its body has just been answered 400 while the
\* update of another request is under way on a catalog already edited
C29_Witness ==
  /\ probe.resp.kind = "PUT"
  /\ probe.resp.status = 400
  /\ probe.inTx
  /\ probe.packs # SeededCatalog.packs
  /\ \E s \in Slots : probe.reqs[s].at = "insert"

\* C30 (as stated): the step that answers a PUT of body P with 200 leaves
\* the pack of that id with P's name and exactly P's entries, and no step
\* of that PUT changes the name or the entries of a pack under another id.
C30_UpdateThenRead ==
  [][\A s \in Slots :
       LET r == probe.reqs[s] IN
       \/ ~(StepOf(s) /\ r.kind = "PUT")
       \/ /\ Answered(s, 200) =>
               /\ probe'.packs[r.url] = r.body.name
               /\ EntriesOf(probe', r.url)
                    = {r.body.entries[i] : i \in DOMAIN r.body.entries}
          /\ \A o \in DOMAIN probe.packs \ {r.url} :
               /\ o \in DOMAIN probe'.packs
               /\ probe'.packs[o] = probe.packs[o]
               /\ EntriesOf(probe', o) = EntriesOf(probe, o)]_vars

\* C31: in every reachable state at most one delayed callback of a session
\* (round timeout, start delay or round-advance delay) is pending, and it is
\* the one that the handle this.roundTimeout of the session refers to.
C31_OneTimerUnderHandle ==
  \A g \in GameIds :
    /\ Cardinality(TimersOf(g)) <= 1
    /\ \A tm \in TimersOf(g) : tm.held

\* C32: the round index of a session starts at 0, never decreases, never
\* moves by more than one in a step and never exceeds the number of
\* entries; a handler that resolves round n of a running session (the
\* timeout handler or the media-failure handler, which took n before its
\* announcement) leaves the index at n + 1, whatever ran meanwhile; and a
\* skip consensus reached during round 0 leaves the index at 1.
C32_RoundIndexByOne ==
  [][\A g \in GameIds :
       /\ (~games[g].created /\ games'[g].created)
            => games'[g].currentRound = 0
       /\ (games[g].isActive /\ games'[g].created)
            => /\ games'[g].currentRound
                    \in {games[g].currentRound, games[g].currentRound + 1}
               /\ games'[g].currentRound <= games'[g].entries
               /\ \A t \in DOMAIN tasks :
                    (/\ t.g = g
                     /\ \/ t.kind = "timeoutSend" /\ TimeoutSendDone(t)
                        \/ t.kind = "mediaFail" /\ MediaFailSendDone(t))
                    => games'[g].currentRound = t.x + 1
               /\ \A u \in Users :
                    (/\ games[g].currentRound = 0
                     /\ Registered(Cur, g)
                     /\ VoteSkipGuard(games[g], u)
                     /\ SkipConsensus([games[g] EXCEPT
                                         !.skipVoters = @ \cup {u}])
                     /\ SkipCmd(u, games[g].guildId))
                    => games'[g].currentRound = 1]_vars

C34_VotesOfParticipants ==
  \A g \in GameIds :
    (games[g].isActive /\ Registered(Cur, g))
    => games[g].skipVoters \subseteq games[g].players

\* C35: whenever a round of a running session is playing and no handler is
\* running, the participants who have voted are at most half of the
\* participants: a leave that makes the votes cast a majority of those who
\* remain resolves the round as Skipped at once.
C35_ConsensusFollowsMembership ==
  \A g \in GameIds :
    (/\ games[g].isActive /\ Registered(Cur, g)
     /\ HasCurrentEntry(games[g]) /\ games[g].player = "playing")
    => 2 * Cardinality(games[g].skipVoters \cap games[g].players)
         <= Cardinality(games[g].players)

\* ------------------------------------------------------------- SpecLive
\* SpecLive: the sessions of one user, who starts them in a voice channel
\* with a stored pack and then joins, leaves, votes, answers and stops at
\* will, with the scheduling of the event loop.
LiveUsers == {"u1"}

\* the event loop: as long as a timer is pending or an awaited call is
\* outstanding, one of them fires or settles
Machine ==
  \/ \E t \in Pending("getQuizPack"), len \in PackLengths :
       StartLookupDone(t, TRUE, len, TRUE, 1)
  \/ \E tm \in timers : TimerFires(tm)
  \/ \E t \in Pending("startSend") : StartSendDone(t)
  \/ \E t \in Pending("incrementPlayCount"), stored \in BOOLEAN :
       IncrementDone(t, stored)
  \/ \E t \in Pending("endSend") : EndSendDone(t)
  \/ \E t \in Pending("timeoutSend") : TimeoutSendDone(t)
  \/ \E t \in Pending("mediaFail") : MediaFailSendDone(t)
  \/ \E t \in Pending("answerSend") : AnswerSendDone(t)

NextLive ==
  \/ \E gid \in Guilds : Quiescent /\ StartCmd("u1", gid, TRUE, TRUE)
  \/ Machine
  \/ \E u \in LiveUsers, gid \in Guilds : StopCmd(u, gid)
  \/ \E gid \in Guilds : VoiceStateUpdate(gid)
  \/ \E u \in LiveUsers, gid \in Guilds : JoinCmd(u, gid)
  \/ \E u \in LiveUsers, gid \in Guilds : LeaveCmd(u, gid)
  \/ \E u \in LiveUsers, gid \in Guilds : SkipCmd(u, gid)
  \/ \E u \in LiveUsers, gid \in Guilds : Message(u, gid, "match", TRUE)

Fairness == WF_vars(Machine)

SpecLive == Init /\ [][NextLive]_vars /\ Fairness

\* C36: every session that has started (isActive was set by start())
\* eventually is inactive with its final leaderboard announced, whatever
\* the participants do.
C36_SessionEnds ==
  \A g \in GameIds :
    games[g].isActive ~> (~games[g].isActive /\ hist[g].lb >= 1)

\* C36, the case: a session that nobody stopped has run through the two
\* entries of its pack and has announced its leaderboard.
C36_Witness ==
  \E g \in GameIds :
    /\ games[g].created /\ ~games[g].isActive
    /\ games[g].entries = 2 /\ games[g].currentRound = 2
    /\ hist[g].lb = 1 /\ ~hist[g].stopped
    /\ TimersOf(g) = {}

\* C37: updateQuizPack applies all of a call or nothing of it, whatever
\* other call runs on the connection meanwhile: when no request is in
\* flight, every pack holds the name and the entries it was seeded with or
\* the name and the entries of one body that was sent for it, never the
\* row of one call with the entries of another or of none.
C37_WholeUpdatesOnly ==
  (/\ \A s \in Slots : probe.reqs[s] = NoReq
   /\ DOMAIN probe.packs # {})
  => /\ ~probe.inTx
     /\ \A p \in DOMAIN probe.packs :
          \/ /\ probe.packs[p] = SeededCatalog.packs[p]
             /\ EntriesOf(probe, p) = EntriesOf(SeededCatalog, p)
          \/ \E u \in Updates :
               /\ probe.packs[p] = u.name
               /\ EntriesOf(probe, p)
                    = {u.entries[i] : i \in DOMAIN u.entries}

====
